---- MODULE Spec2Model ----
(***************************************************************************)
(* A model of src/net/net.py: the seven-head BadmintonNet and the update   *)
(* protocol of BadmintonNetOperator (per-head loss, backward, optimizer    *)
(* step and gradient clear, then one backbone step), with BadmintonNet's   *)
(* forward pass and BadmintonNetOperator.save.                             *)
(*                                                                         *)
(* Parameter groups are numbered 0..6 for model.lins[0..6] and EFF for     *)
(* model.eff.  A parameter value is represented by the number of updates   *)
(* applied to it, a gradient accumulator (.grad) by the set of loss terms  *)
(* whose gradient it holds, each tagged with its age (0: the current call  *)
(* of update, 1: an earlier call).  Only loss terms that depend on the     *)
(* group are recorded: the gradient of head j's loss with respect to the   *)
(* parameters of another head is identically zero.                         *)
(*                                                                         *)
(* One action models one statement of update, in program order; pc is the  *)
(* position inside the call.                                               *)
(*                                                                         *)
(* The optimizer classes are arguments of the operator (eff_optim,         *)
(* lin_optims).  torch.optim's optimizers, the ones the script passes,     *)
(* write the parameters in place under no_grad, which autograd tracks      *)
(* through the tensors' version counters (tracked = TRUE); an optimizer    *)
(* that writes through .data is not tracked (tracked = FALSE).  A backward *)
(* pass that walks through a sub-graph whose saved parameter has been      *)
(* written raises in the first case and goes on in the second.             *)
(***************************************************************************)
EXTENDS Integers, Sequences, FiniteSets, TLC

VARIABLES
    in_seq,       \* BadmintonNet(in_seq)
    nLoss,        \* len(loss_func_order) given to the operator
    nOptF,        \* len(lin_optims) (optimizer factories) given to it
    nLrs,         \* len(lin_lrs) given to it
    tracked,      \* the optimizers update parameters by tracked in-place writes
    budget,       \* calls of update and save still allowed in this run
    paramVer,     \* group -> number of updates applied to its parameters
    grad,         \* group -> contents of its gradient accumulator
    optState,     \* group -> steps its optimizer has taken (its internal state)
    graph,        \* autograd graph of the latest prediction: none/live/released
    stepped,      \* groups modified in place since that graph was recorded
    predFresh,    \* the latest prediction has not been given to update yet
    fs,           \* path -> artifact written by save
    pc,           \* position: idle, inside update, or done (a call just ended)
    i,            \* update: loop index
    isTrain,      \* update: argument
    batch,        \* update: identifies the (pred, labels) pair given
    lossFault,    \* update: the head whose loss computation raises (NoFault: none)
    idx_start,    \* update: local
    loss,         \* update: local
    loss_record,  \* update: local
    events,       \* the operations the current call has performed, in order
    slices,       \* the <<lo, hi>> column ranges the current call has sliced
    callFresh,    \* the current call was given a fresh prediction with a live graph
    headSteps,    \* group -> optimizer steps applied by the current call
    headZeros,    \* group -> gradient clears applied by the current call
    outcome,      \* none / returned / fault: how the latest call ended
    faultHead,    \* the loop index at which the latest call faulted
    ret,          \* the loss record the latest call returned
    pre,          \* persistent state when the current call began
    firstEval,    \* batch and loss record of the first evaluation call that returned
    again,        \* the latest call is a later evaluation call on that same batch
    clean,        \* no call of update has faulted so far
    lastSave      \* the arguments of the latest call of save

cfgVars  == <<in_seq, nLoss, nOptF, nLrs, tracked>>
persVars == <<paramVer, grad, optState, graph, stepped, fs>>
callVars == <<i, isTrain, batch, lossFault, idx_start, loss, loss_record, events,
              slices, callFresh, headSteps, headZeros, outcome, faultHead, ret>>
histVars == <<pre, firstEval, again, clean, lastSave>>
vars == <<cfgVars, persVars, callVars, histVars, pc, budget, predFresh>>

----------------------------------------------------------------------------
(* Bounds of the model *)

MaxInSeq == 5
MaxCalls == 3
MaxBatch == 2

----------------------------------------------------------------------------
(* BadmintonNet: class attributes and construction *)

sub_model_order_names ==
    <<"HitFrame", "Hitter", "RoundHead", "Backhand", "BallHeight", "BallType", "XY_Reg">>

None == [none |-> TRUE, v |-> 0]
Idx(n) == [none |-> FALSE, v |-> n]

end_idx_orders_bad ==
    <<Idx(-23), Idx(-21), Idx(-19), Idx(-17), Idx(-14), Idx(-6), None>>

end_idx_orders ==
    <<Idx(-23), Idx(-21), Idx(-19), Idx(-17), Idx(-15), Idx(-6), None>>

\* output widths of model.lins, in order
lins(seq) == <<seq + 1, 2, 2, 2, 2, 9, 6>>

NumHeads == Len(lins(0))
Heads == 0 .. NumHeads - 1
EFF == 7
Groups == Heads \cup {EFF}

RECURSIVE SumSeq(_)
SumSeq(s) == IF s = <<>> THEN 0 ELSE Head(s) + SumSeq(Tail(s))

\* torch.hstack of the heads' outputs: the width of the prediction
PredWidth(seq) == SumSeq(lins(seq))

\* the first column of head k's output inside the concatenation
HeadOffset(seq, k) == SumSeq(SubSeq(lins(seq), 1, k))

Min2(a, b) == IF a < b THEN a ELSE b
Max2(a, b) == IF a > b THEN a ELSE b

----------------------------------------------------------------------------
(* Tensor slicing: t[:, start:end] on a tensor with W columns *)

NormIdx(ix, W, dflt) ==
    IF ix.none THEN dflt
    ELSE IF ix.v < 0 THEN Max2(ix.v + W, 0)
    ELSE Min2(ix.v, W)

PySlice(start, end, W) == <<NormIdx(start, W, 0), NormIdx(end, W, W)>>

SliceWidth(sl) == Max2(sl[2] - sl[1], 0)

----------------------------------------------------------------------------
(* The prediction and label tensors of a batch, and the loss functions.    *)
(* loss_func_order[k] is a callable given to the operator; it is modelled  *)
(* as a deterministic function of the two slices it is given: a weighted   *)
(* sum of absolute differences over the sliced columns.                    *)

PredVal(b, col) == b + col
LabelVal(b, col) == col % 2

Abs(x) == IF x < 0 THEN 0 - x ELSE x

RECURSIVE SumCols(_, _, _)
SumCols(b, lo, hi) ==
    IF lo >= hi THEN 0
    ELSE Abs(PredVal(b, lo) - LabelVal(b, lo)) + SumCols(b, lo + 1, hi)

\* loss_func(pred[:, lo:hi], labels[:, lo:hi]) for loss_func_order[k]
LossFn(k, b, sl) == (k + 1) * SumCols(b, sl[1], sl[2])

NoFault == NumHeads

\* the heads at which a loss function given to update may raise: the first,
\* the second and the last
FaultHeads == {0, 1, NumHeads - 1}

----------------------------------------------------------------------------
(* BadmintonNetOperator: construction and the loop of update *)

\* len(self.lin_optims): zip(lin_optims, lin_lrs, model.lins) stops at the shortest
LinOptimsLen == Min2(Min2(nOptF, nLrs), NumHeads)

\* iterations of the loop: zip(end_idx_orders, loss_func_order, lin_optims)
LoopLen == Min2(Min2(Len(end_idx_orders), nLoss), LinOptimsLen)

LoopNext(k) == IF k < LoopLen THEN "loss" ELSE "sum"

RetainGraphEarly(k) == (k % Len(sub_model_order_names)) # 0

\* retain_graph=(i + 1) % len(self.sub_model_order_names), read as a truth value
RetainGraph(k) == ((k + 1) % Len(sub_model_order_names)) # 0

AlwaysBackward(train) == "backward"

\* the statement after the loss computation: backward when training, else
\* (under no_grad) straight to loss_record[i] = loss
AfterLoss(train) == IF train THEN "backward" ELSE "record"

StaleRecord == IF ret = <<>> THEN [k \in 1 .. NumHeads + 1 |-> 0] ELSE ret

\* torch.zeros(8)
ZerosRecord == [k \in 1 .. 8 |-> 0]

AllParams(k) == Groups

\* the parameters lin_optims[k] was constructed on: model.lins[k], by position
BoundParams(k) == {k}

KeptGrad(g) == grad[g]

\* a gradient accumulator after zero_grad
ClearedGrad(g) == {}

----------------------------------------------------------------------------
(* The autograd graph BadmintonNet.forward records, and a backward pass    *)

GraphNodes ==
    ({"loss", "slice", "lin"} \X Heads) \cup {<<"hstack", 0>>, <<"eff", 0>>}
    \cup ({"param"} \X Groups)

\* the inputs of each node: loss k is computed on slice k of the prediction,
\* the prediction is the hstack of every head's output, every head reads the
\* backbone's embedding
GraphInputs(n) ==
    CASE n[1] = "loss"   -> {<<"slice", n[2]>>}
      [] n[1] = "slice"  -> {<<"hstack", 0>>}
      [] n[1] = "hstack" -> {<<"lin", h>> : h \in Heads}
      [] n[1] = "lin"    -> {<<"param", n[2]>>, <<"eff", 0>>}
      [] n[1] = "eff"    -> {<<"param", EFF>>}
      [] OTHER           -> {}

RECURSIVE Reach(_)
Reach(S) ==
    LET T == S \cup UNION {GraphInputs(n) : n \in S}
    IN  IF T = S THEN S ELSE Reach(T)

\* the groups whose sub-graph (and saved parameters) the backward pass of
\* head k's loss walks through
Traversed(k) == {g \in Groups : <<"param", g>> \in Reach({<<"loss", k>>})}

\* the groups that receive a non-zero gradient from head k's loss: slice k
\* holds the columns of head k only
GradPath(k) == {k, EFF}

Deposit(acc, k, D) == [g \in Groups |-> IF g \in D THEN acc[g] \cup {<<0, k>>} ELSE acc[g]]

Age(acc) == [g \in Groups |-> {<<1, t[2]>> : t \in acc[g]}]

\* optimizer.step(): a parameter without a gradient is skipped
StepOn(f, P) == [g \in Groups |-> IF g \in P /\ grad[g] # {} THEN f[g] + 1 ELSE f[g]]

Bump(f, g) == [f EXCEPT ![g] = @ + 1]

ZeroCount == [g \in Groups |-> 0]

----------------------------------------------------------------------------
(* Persistence: what torch.save is given *)

Suffix == "_BadmintonNetUpdate.pickle"

SamePath(path) == path

\* f'{path}_BadmintonNetUpdate.pickle'
DerivedPath(path) == path \o Suffix

BasePaths == {"ckpt", "ckpt" \o Suffix}
AllPaths == BasePaths \cup {p \o Suffix : p \in BasePaths}

EmptyDict == [g \in {} |-> 0]
Absent == [kind |-> "absent", of |-> "", data |-> EmptyDict]

\* model.state_dict(): every parameter of model.eff and of model.lins
ModelStateDict == [g \in Groups |-> paramVer[g]]

\* self.state_dict(): the operator registers no parameter, buffer or sub-module
\* (loss_func_order and lin_optims are plain lists, eff_optim is an optimizer)
OperatorStateDict == EmptyDict

ModelArtifact(isFull) ==
    IF isFull THEN [kind |-> "object", of |-> "model", data |-> ModelStateDict]
    ELSE [kind |-> "state_dict", of |-> "model", data |-> ModelStateDict]

OperatorArtifact(isFull) ==
    IF isFull THEN [kind |-> "object", of |-> "operator", data |-> optState]
    ELSE [kind |-> "state_dict", of |-> "operator", data |-> OperatorStateDict]

\* a freshly constructed BadmintonNet(in_seq): newly initialised parameters
FreshParams == [g \in Groups |-> 0 - 1]

\* fresh.load_state_dict(torch.load(path)): every key must be present
LoadStateDict(artifact) ==
    IF artifact.kind = "state_dict" /\ DOMAIN artifact.data = Groups
    THEN [ok |-> TRUE, params |-> [g \in Groups |-> artifact.data[g]]]
    ELSE [ok |-> FALSE, params |-> FreshParams]

Persist == [paramVer |-> paramVer, grad |-> grad, optState |-> optState,
            graph |-> graph, stepped |-> stepped, fs |-> fs]

----------------------------------------------------------------------------
(* Initial states: after BadmintonNet(seq) and BadmintonNetOperator(...)   *)

InitWith(seqs, lens, calls) ==
    /\ in_seq \in seqs
    /\ nLoss \in lens /\ nOptF \in lens /\ nLrs \in lens
    /\ tracked \in BOOLEAN
    /\ budget = calls
    /\ paramVer = ZeroCount
    /\ grad = [g \in Groups |-> {}]
    /\ optState = ZeroCount
    /\ graph = "none"
    /\ stepped = {}
    /\ predFresh = FALSE
    /\ fs = [p \in AllPaths |-> Absent]
    /\ pc = "idle"
    /\ i = 0
    /\ isTrain = FALSE
    /\ batch = 1
    /\ lossFault = NoFault
    /\ idx_start = Idx(0)
    /\ loss = 0
    /\ ret = <<>>
    /\ loss_record = ZerosRecord
    /\ events = <<>>
    /\ slices = <<>>
    /\ callFresh = FALSE
    /\ headSteps = ZeroCount
    /\ headZeros = ZeroCount
    /\ outcome = "none"
    /\ faultHead = 0 - 1
    /\ pre = [paramVer |-> ZeroCount, grad |-> [g \in Groups |-> {}],
              optState |-> ZeroCount, graph |-> "none", stepped |-> {},
              fs |-> [p \in AllPaths |-> Absent]]
    /\ firstEval = [batch |-> 0, record |-> <<>>]
    /\ again = FALSE
    /\ clean = TRUE
    /\ lastSave = [path |-> "", isFull |-> FALSE]

\* the configuration of the script: in_seq = 5, seven loss functions, seven
\* optimizer factories and learning rates
Init == InitWith({5}, {NumHeads}, MaxCalls)

\* every sequence length
InitShape == InitWith(0 .. MaxInSeq, {NumHeads}, 1)

\* lists shorter and longer than the seven heads
ListLens == {0, 1, 6, NumHeads, NumHeads + 1}

\* every combination of these lengths
InitCfg == InitWith({5}, ListLens, 1)

----------------------------------------------------------------------------
(* Actions *)

Between == pc \in {"idle", "done", "saved"}

\* an exception leaves update: nothing is undone, nothing further runs
Raise ==
    /\ pc' = "done"
    /\ outcome' = "fault"
    /\ faultHead' = i
    /\ clean' = FALSE

\* BadmintonNet.forward: one pass of the backbone, every head on its embedding,
\* hstack; records a new graph, in which no parameter has been written yet
Forward ==
    /\ Between
    /\ graph' = "live"
    /\ stepped' = {}
    /\ predFresh' = TRUE
    /\ pc' = "idle"
    /\ UNCHANGED <<cfgVars, paramVer, grad, optState, fs, callVars, histVars,
                   budget>>

\* update(pred, labels, isTrain): loss_record = torch.zeros(8); idx_start = 0;
\* the loop is entered if the zip yields a first triple
UpdateBegin(train, b, lf) ==
    /\ Between
    /\ budget > 0
    /\ budget' = budget - 1
    /\ isTrain' = train
    /\ batch' = b
    /\ lossFault' = lf
    /\ loss_record' = ZerosRecord
    /\ idx_start' = Idx(0)
    /\ i' = 0
    /\ loss' = 0
    /\ events' = <<>>
    /\ slices' = <<>>
    /\ callFresh' = (predFresh /\ graph = "live")
    /\ predFresh' = FALSE
    /\ headSteps' = ZeroCount
    /\ headZeros' = ZeroCount
    /\ outcome' = "running"
    /\ faultHead' = 0 - 1
    /\ ret' = <<>>
    /\ grad' = Age(grad)
    /\ pre' = [Persist EXCEPT !.grad = Age(grad)]
    /\ pc' = LoopNext(0)
    /\ UNCHANGED <<cfgVars, paramVer, optState, graph, stepped, fs, firstEval,
                   again, clean, lastSave>>

\* loss = loss_func(pred[:, idx_start:idx_end], labels[:, idx_start:idx_end]):
\* both arguments are sliced first, then loss_func is called and may raise
ComputeLoss ==
    /\ pc = "loss"
    /\ LET sl == PySlice(idx_start, end_idx_orders[i + 1], PredWidth(in_seq))
       IN  /\ slices' = Append(slices, sl)
           /\ IF lossFault = i
              THEN /\ Raise
                   /\ UNCHANGED <<loss, events>>
              ELSE /\ loss' = LossFn(i, batch, sl)
                   /\ events' = Append(events, <<"loss", i>>)
                   /\ pc' = AfterLoss(isTrain)
                   /\ UNCHANGED <<outcome, faultHead, clean>>
    /\ UNCHANGED <<cfgVars, persVars, i, isTrain, batch, lossFault, idx_start,
                   loss_record, callFresh, headSteps, headZeros, ret, pre,
                   firstEval, again, lastSave, budget, predFresh>>

\* loss.backward(retain_graph=(i + 1) % 7).  The pass raises when the graph
\* holds no gradient path or was released, and when a parameter saved in a
\* sub-graph it walks through has since been written in place by an optimizer
\* whose writes are tracked (the saved tensor's version no longer matches);
\* how far the pass got before raising is not determined.
Backward ==
    /\ pc = "backward"
    /\ IF graph # "live"
       THEN /\ Raise
            /\ UNCHANGED <<grad, graph, events>>
       ELSE IF tracked /\ Traversed(i) \cap stepped # {}
       THEN /\ Raise
            /\ \E got \in BOOLEAN :
                 grad' = Deposit(grad, i, IF got THEN {i} ELSE {})
            /\ UNCHANGED <<graph, events>>
       ELSE /\ grad' = Deposit(grad, i, GradPath(i))
            /\ graph' = IF RetainGraph(i) THEN "live" ELSE "released"
            /\ events' = Append(events, <<"backward", i>>)
            /\ pc' = "step"
            /\ UNCHANGED <<outcome, faultHead, clean>>
    /\ UNCHANGED <<cfgVars, paramVer, optState, stepped, fs, i, isTrain, batch,
                   lossFault, idx_start, loss, loss_record, slices, callFresh,
                   headSteps, headZeros, ret, pre, firstEval, again, lastSave,
                   budget, predFresh>>

\* optimizer.step() on the parameter groups P, counted for optimizer k
Step(k, P) ==
    /\ paramVer' = StepOn(paramVer, P)
    /\ optState' = StepOn(optState, P)
    /\ stepped' = stepped \cup {g \in P : grad[g] # {}}
    /\ headSteps' = Bump(headSteps, k)
    /\ events' = Append(events, <<"step", k>>)

\* optimizer.zero_grad() on the parameter groups P, counted for optimizer k
ZeroGrad(k, P) ==
    /\ grad' = [g \in Groups |-> IF g \in P THEN ClearedGrad(g) ELSE grad[g]]
    /\ headZeros' = Bump(headZeros, k)
    /\ events' = Append(events, <<"zero", k>>)

\* lin_optim.step()
HeadStep ==
    /\ pc = "step"
    /\ Step(i, BoundParams(i))
    /\ pc' = "zero"
    /\ UNCHANGED <<cfgVars, grad, graph, fs, i, isTrain, batch, lossFault,
                   idx_start, loss, loss_record, slices, callFresh, headZeros,
                   outcome, faultHead, ret, histVars, budget, predFresh>>

\* lin_optim.zero_grad()
HeadZeroGrad ==
    /\ pc = "zero"
    /\ ZeroGrad(i, BoundParams(i))
    /\ pc' = "record"
    /\ UNCHANGED <<cfgVars, paramVer, optState, graph, stepped, fs, i, isTrain,
                   batch, lossFault, idx_start, loss, loss_record, slices,
                   callFresh, headSteps, outcome, faultHead, ret, histVars,
                   budget, predFresh>>

\* loss_record[i] = loss; idx_start = idx_end; the zip yields the next triple
\* or ends the loop
Record ==
    /\ pc = "record"
    /\ loss_record' = [loss_record EXCEPT ![i + 1] = loss]
    /\ idx_start' = end_idx_orders[i + 1]
    /\ i' = i + 1
    /\ pc' = LoopNext(i + 1)
    /\ UNCHANGED <<cfgVars, persVars, isTrain, batch, lossFault, loss, events,
                   slices, callFresh, headSteps, headZeros, outcome, faultHead,
                   ret, histVars, budget, predFresh>>

\* loss_record[-1] = loss_record.sum()
SumRecord ==
    /\ pc = "sum"
    /\ loss_record' = [loss_record EXCEPT ![Len(loss_record)] = SumSeq(loss_record)]
    /\ pc' = IF isTrain THEN "effstep" ELSE "return"
    /\ UNCHANGED <<cfgVars, persVars, i, isTrain, batch, lossFault, idx_start,
                   loss, events, slices, callFresh, headSteps, headZeros,
                   outcome, faultHead, ret, histVars, budget, predFresh>>

\* self.eff_optim.step()
EffStep ==
    /\ pc = "effstep"
    /\ Step(EFF, {EFF})
    /\ pc' = "effzero"
    /\ UNCHANGED <<cfgVars, grad, graph, fs, i, isTrain, batch, lossFault,
                   idx_start, loss, loss_record, slices, callFresh, headZeros,
                   outcome, faultHead, ret, histVars, budget, predFresh>>

\* self.eff_optim.zero_grad()
EffZeroGrad ==
    /\ pc = "effzero"
    /\ ZeroGrad(EFF, {EFF})
    /\ pc' = "return"
    /\ UNCHANGED <<cfgVars, paramVer, optState, graph, stepped, fs, i, isTrain,
                   batch, lossFault, idx_start, loss, loss_record, slices,
                   callFresh, headSteps, outcome, faultHead, ret, histVars,
                   budget, predFresh>>

\* return loss_record
Return ==
    /\ pc = "return"
    /\ ret' = loss_record
    /\ outcome' = "returned"
    /\ pc' = "done"
    /\ again' = (~isTrain /\ firstEval.batch = batch)
    /\ firstEval' = IF isTrain \/ firstEval.batch # 0 THEN firstEval
                    ELSE [batch |-> batch, record |-> loss_record]
    /\ UNCHANGED <<cfgVars, persVars, i, isTrain, batch, lossFault, idx_start,
                   loss, loss_record, events, slices, callFresh, headSteps,
                   headZeros, faultHead, pre, clean, lastSave, budget,
                   predFresh>>

\* save(model, path, isFull): torch.save of the model (or its state_dict) to
\* path, then of the operator (or its state_dict) to the derived path
Save(path, isFull) ==
    /\ Between
    /\ budget > 0
    /\ budget' = budget - 1
    /\ LET fs1 == [fs EXCEPT ![path] = ModelArtifact(isFull)]
       IN  fs' = [fs1 EXCEPT ![DerivedPath(path)] = OperatorArtifact(isFull)]
    /\ lastSave' = [path |-> path, isFull |-> isFull]
    /\ pre' = Persist
    /\ pc' = "saved"
    /\ UNCHANGED <<cfgVars, paramVer, grad, optState, graph, stepped, callVars,
                   firstEval, again, clean, predFresh>>

Next ==
    \/ Forward
    \/ \E train \in BOOLEAN, b \in 1 .. MaxBatch, lf \in FaultHeads \cup {NoFault} :
         UpdateBegin(train, b, lf)
    \/ ComputeLoss
    \/ Backward
    \/ HeadStep
    \/ HeadZeroGrad
    \/ Record
    \/ SumRecord
    \/ EffStep
    \/ EffZeroGrad
    \/ Return
    \/ \E path \in BasePaths, isFull \in BOOLEAN : Save(path, isFull)

Spec == Init /\ [][Next]_vars
SpecShape == InitShape /\ [][Next]_vars
SpecCfg == InitCfg /\ [][Next]_vars

----------------------------------------------------------------------------
(* Properties *)

RECURSIVE HeadTrace(_, _)
HeadTrace(k, n) ==
    IF k >= n THEN <<>>
    ELSE << <<"loss", k>>, <<"backward", k>>, <<"step", k>>, <<"zero", k>> >>
         \o HeadTrace(k + 1, n)

TrainTrace == HeadTrace(0, NumHeads) \o << <<"step", EFF>>, <<"zero", EFF>> >>

\* the columns head k's output occupies in the concatenated prediction
HeadCols(k) ==
    <<HeadOffset(in_seq, k), HeadOffset(in_seq, k) + lins(in_seq)[k + 1]>>

Ended == pc = "done"
Returned == pc = "done" /\ outcome = "returned"

\* C1: a training-mode call of update with seven heads, given a fresh
\* prediction and loss functions that do not raise, performs exactly loss,
\* backward, head step, head clear for heads 0..6 in order, then one backbone
\* step and one backbone clear, every optimizer stepped exactly once.
C1_TrainingSequence ==
    (Ended /\ isTrain /\ callFresh /\ LoopLen = NumHeads /\ lossFault = NoFault)
        => /\ events = TrainTrace
           /\ \A g \in Groups : headSteps[g] = 1

\* C2: an evaluation-mode call runs no backward pass, no optimizer step and no
\* gradient clear and leaves every parameter, accumulator and optimizer state
\* as it found them; a later evaluation call on the same inputs returns the
\* same loss record, whatever calls came in between.
C2_EvalFrame ==
    /\ (pc \notin {"idle", "saved"} /\ ~isTrain /\ outcome # "none")
          => /\ Persist = pre
             /\ headSteps = ZeroCount /\ headZeros = ZeroCount
             /\ \A k \in 1 .. Len(events) : events[k][1] = "loss"
    /\ (Returned /\ again) => ret = firstEval.record

C2_Witness ==
    /\ Returned /\ again /\ ~isTrain
    /\ LoopLen = NumHeads
    /\ ret[NumHeads + 1] > 0
    /\ paramVer[0] > 0

\* C3: the returned loss record holds head k's loss on slice k at entry k, in
\* head order, and the sum of entries 0..6 at entry 7.
C3_LossRecord ==
    Returned =>
        /\ Len(ret) = NumHeads + 1
        /\ \A k \in Heads :
             ret[k + 1] = IF k < LoopLen THEN LossFn(k, batch, HeadCols(k)) ELSE 0
        /\ ret[NumHeads + 1] = SumSeq(SubSeq(ret, 1, NumHeads))

C3_Witness ==
    /\ Returned /\ isTrain
    /\ firstEval.batch # 0
    /\ \A k \in Heads : ret[k + 1] > 0

\* C4: with a number of loss functions, optimizer factories or learning rates
\* other than seven, no call of update returns normally.
C4_MismatchFaults ==
    Returned => (nLoss = NumHeads /\ nOptF = NumHeads /\ nLrs = NumHeads)

\* C5: the prediction is in_seq + 24 wide, and the slices update takes are, in
\* order, exactly the column ranges of the heads' outputs in the
\* concatenation: contiguous from 0, head 0 being W - 23 = in_seq + 1 wide.
C5_Slices ==
    /\ PredWidth(in_seq) = in_seq + 24
    /\ \A k \in 1 .. Len(slices) :
         /\ slices[k] = HeadCols(k - 1)
         /\ slices[k][1] = (IF k = 1 THEN 0 ELSE slices[k - 1][2])
         /\ slices[k][1] < slices[k][2]
    /\ Len(slices) >= 1 => SliceWidth(slices[1]) = PredWidth(in_seq) - 23
    /\ Len(slices) = NumHeads => slices[NumHeads][2] = PredWidth(in_seq)

C5_Witness ==
    /\ in_seq = 5
    /\ PredWidth(in_seq) = 29
    /\ Len(slices) = NumHeads
    /\ [k \in 1 .. NumHeads |-> SliceWidth(slices[k])] = <<6, 2, 2, 2, 2, 9, 6>>

\* C6: the backward pass of head k retains the graph exactly when k < 6; in a
\* training call given a fresh prediction no backward pass meets a released
\* graph, and the graph is released when a call over seven heads returns.
C6_Retain ==
    /\ pc = "step" => (graph = "live" <=> i < NumHeads - 1)
    /\ pc = "step" => (graph = "released" <=> i = NumHeads - 1)
    /\ (pc = "backward" /\ callFresh) => graph = "live"
    /\ (Returned /\ isTrain /\ LoopLen = NumHeads) => graph = "released"

C6_Witness ==
    /\ Returned /\ isTrain /\ callFresh
    /\ LoopLen = NumHeads
    /\ events = TrainTrace

\* C7: save changes nothing but the two files it writes: the model at path, the
\* operator at path + '_BadmintonNetUpdate.pickle'; in state mode both are
\* state dicts, and loading the one at path into a new BadmintonNet gives the
\* saved model's parameters; in full mode both are whole objects.
C7_Save ==
    pc = "saved" =>
        LET p == lastSave.path
            q == lastSave.path \o "_BadmintonNetUpdate.pickle"
        IN  /\ [Persist EXCEPT !.fs = pre.fs] = pre
            /\ \A r \in AllPaths \ {p, q} : fs[r] = pre.fs[r]
            /\ fs[p].of = "model" /\ fs[q].of = "operator"
            /\ fs[p].kind = (IF lastSave.isFull THEN "object" ELSE "state_dict")
            /\ fs[q].kind = fs[p].kind
            /\ ~lastSave.isFull =>
                 LoadStateDict(fs[p]) = [ok |-> TRUE, params |-> paramVer]

C7_Witness ==
    /\ pc = "saved" /\ ~lastSave.isFull
    /\ \A g \in Groups : paramVer[g] > 0
    /\ LoadStateDict(fs[lastSave.path]).params = paramVer

\* C8: as long as no call has faulted, head k's accumulator holds the gradient
\* of head k's loss of the current call and nothing else when head k's
\* optimizer steps, and the backbone's holds one contribution of each head
\* loss of the current call and nothing else when the backbone's steps.
C8_NoContamination ==
    clean =>
        /\ pc = "step" => grad[i] = {<<0, i>>}
        /\ pc = "effstep" => grad[EFF] = {<<0, k>> : k \in 0 .. LoopLen - 1}

C8_Witness ==
    /\ clean /\ pc = "effstep"
    /\ LoopLen = NumHeads
    /\ paramVer[EFF] > 0
    /\ firstEval.batch # 0
    /\ grad[EFF] = {<<0, k>> : k \in Heads}

FaultedAtLaterHead ==
    Ended /\ outcome = "fault" /\ isTrain /\ faultHead \in 1 .. NumHeads - 1

\* C9: a training call that faults at head k in 1..6 leaves every accumulator
\* empty and has stepped no head.
C9_NoPartialEffect ==
    FaultedAtLaterHead => \A g \in Groups : grad[g] = {} /\ headSteps[g] = 0

\* C9, amended: a training call that faults at head k in 1..6 has stepped and
\* cleared heads 0..k-1 once each and no other optimizer, and leaves the
\* gradient of losses 0..k-1 in the backbone's accumulator; what a call finds
\* in that accumulator is still there when its backbone step is applied.
C9_PartialEffect ==
    /\ FaultedAtLaterHead =>
         /\ \A h \in Heads :
              /\ headSteps[h] = (IF h < faultHead THEN 1 ELSE 0)
              /\ headZeros[h] = headSteps[h]
              /\ paramVer[h] = pre.paramVer[h] + headSteps[h]
         /\ headSteps[EFF] = 0 /\ headZeros[EFF] = 0
         /\ paramVer[EFF] = pre.paramVer[EFF]
         /\ {<<0, k>> : k \in 0 .. faultHead - 1} \subseteq grad[EFF]
    /\ pc = "effstep" => {t \in grad[EFF] : t[1] = 1} = pre.grad[EFF]

C9_Witness ==
    /\ pc = "effstep"
    /\ LoopLen = NumHeads
    /\ pre.grad[EFF] = {<<1, k>> : k \in 0 .. NumHeads - 2}
    /\ grad[EFF] = pre.grad[EFF] \cup {<<0, k>> : k \in Heads}

\* C10: in a training call given a fresh prediction, a backward pass never
\* walks through the sub-graph of a parameter group that an optimizer step has
\* written since the graph was recorded.
C10_NoWrittenSubgraph ==
    (pc = "backward" /\ callFresh) => Traversed(i) \cap stepped = {}

====
